---- MODULE Spec2Model ----
(***************************************************************************)
(* QuantumLab: the BB84 key-exchange session (scripts/bb84_demo.py) and    *)
(* the bit/byte codecs (bb84_demo.py, quantum_rng.py,                      *)
(* quantum_password_demo.py).                                              *)
(*                                                                         *)
(* Python lists are sequences; Python indices are kept 0-based as values   *)
(* (key_positions, reveal_indices) and element i of a list s is s[i+1].    *)
(***************************************************************************)
EXTENDS Integers, Sequences, FiniteSets, TLC

\* ---------------------------------------------------------------- bounds
MaxBits == 3
MaxSifted == 21
MaxCodecLen == 9
MaxQubitsArg == 6
MaxTargetArg == 17
MaxRngBits == 5
MaxShots == 3
MaxRolls == 5
MaxPtLen == 2

\* ------------------------------------------------------------- variables
VARIABLES
    pc,              \* position in bb84_protocol / the codec driver
    alice_bits, alice_bases, bob_bases,
    bob_results,
    circuits,        \* circuits submitted to the simulator so far, in order
    inflight,        \* the circuit whose result is awaited (<<>> if none)
    shots_log,       \* the shot count of each submission, in order
    key_positions, sifted_alice, sifted_bob,
    reveal_indices, revealed_alice, revealed_bob,
    final_alice_key, final_bob_key,
    error,           \* exception raised by the session ("none" if none)
    bits,            \* the bit list handed to the codecs
    hex_out,         \* bits_to_hex(bits)         (bb84_demo)
    bytes_out,       \* bits_to_bytes(bits)       (quantum_rng)
    hex_str_out,     \* bits_to_hex_str(bits)     (quantum_password_demo)
    applied,         \* the codecs that have been applied to bits
    g_call,          \* the Grover call under way: [fn, n_qubits, target_index, shots]
    g_qc,            \* the gates of the Grover circuit built by the call
    g_submitted,     \* the circuits the call has handed to the simulator
    g_error,         \* the exception the call raised ("none" if none)
    g_r,             \* the iteration count the call returns (0 until then)
    rng_call,        \* the bit-generator call under way: [fn, n_bits, shots]
    rng_bits,        \* its local list `bits`
    rng_batches,     \* the number of batches it has submitted
    rng_result,      \* the list it returned
    raw_rolls,       \* the values roll_die_once has returned to roll_die
    die_result,      \* the value roll_die returned (0 until then)
    c_call,          \* the cipher round under way: [mode, key, plaintext]
    c_ct,            \* the base64 ciphertext string the encrypt call returned
    c_out,           \* the string the decrypt call returned
    c_error          \* the exception a cipher call raised ("none" if none)

bb84vars == <<alice_bits, alice_bases, bob_bases, bob_results, circuits,
              inflight, shots_log, key_positions, sifted_alice, sifted_bob,
              reveal_indices, revealed_alice, revealed_bob,
              final_alice_key, final_bob_key, error>>
codecvars == <<bits, hex_out, bytes_out, hex_str_out, applied>>
grovervars == <<g_call, g_qc, g_submitted, g_error, g_r>>
rngvars == <<rng_call, rng_bits, rng_batches, rng_result>>
dicevars == <<raw_rolls, die_result>>
ciphervars == <<c_call, c_ct, c_out, c_error>>
othervars == <<grovervars, rngvars, dicevars, ciphervars>>
vars == <<pc, bb84vars, codecvars, othervars>>

\* --------------------------------------------------------------- helpers
Bit == {0, 1}

Range(s) == {s[i] : i \in 1..Len(s)}

Max(a, b) == IF a >= b THEN a ELSE b

RECURSIVE Pow2(_)
Pow2(k) == IF k = 0 THEN 1 ELSE 2 * Pow2(k - 1)

\* all lists of length n over S
ListsOf(S, n) == [1..n -> S]

\* ------------------------------------------------- the execution oracle
\* A one-qubit state (a0|0> + a1|1>) / sqrt(2)^k with integer a0, a1.
ZeroState == <<1, 0, 0>>

ApplyGate(st, g) ==
    IF g = "x" THEN <<st[2], st[1], st[3]>>
    ELSE IF g = "h" THEN <<st[1] + st[2], st[1] - st[2], st[3] + 1>>
    ELSE st

RECURSIVE Evolve(_, _)
Evolve(st, gates) ==
    IF gates = <<>> THEN st
    ELSE Evolve(ApplyGate(st, Head(gates)), Tail(gates))

\* Born rule: P(outcome b) = ProbNum(qc, b) / ProbDen(qc)
ProbNum(qc, b) == LET st == Evolve(ZeroState, qc) IN st[b + 1] * st[b + 1]
ProbDen(qc) == Pow2(Evolve(ZeroState, qc)[3])

\* the outcomes a run of qc can yield
Outcomes(qc) == {b \in Bit : ProbNum(qc, b) > 0}

\* ------------------------------------------------------- bb84_protocol
\* (variant) Bob's rotation into the X basis is left out
RoundCircuitNoBobH(bit, a_basis, b_basis) ==
    (IF bit = 1 THEN <<"x">> ELSE <<>>)
    \o (IF a_basis = 1 THEN <<"h">> ELSE <<>>)

\* (variant) Bob rotates whatever his basis is
RoundCircuitBobAlwaysH(bit, a_basis, b_basis) ==
    (IF bit = 1 THEN <<"x">> ELSE <<>>)
    \o (IF a_basis = 1 THEN <<"h">> ELSE <<>>)
    \o <<"h">>

\* (variant) Alice flips the qubit after rotating it
RoundCircuitXAfterH(bit, a_basis, b_basis) ==
    (IF a_basis = 1 THEN <<"h">> ELSE <<>>)
    \o (IF bit = 1 THEN <<"x">> ELSE <<>>)
    \o (IF b_basis = 1 THEN <<"h">> ELSE <<>>)

\* the circuit of one round: Alice prepares, Bob rotates, then measures
RoundCircuit(bit, a_basis, b_basis) ==
    (IF bit = 1 THEN <<"x">> ELSE <<>>)
    \o (IF a_basis = 1 THEN <<"h">> ELSE <<>>)
    \o (IF b_basis = 1 THEN <<"h">> ELSE <<>>)

\* (variant) the loop does not advance to the next round
RoundIndexStuck(results) == 1

\* the round (1-based) the zip loop is at once `results` are in
RoundIndex(results) == Len(results) + 1

\* sim.run(qc, shots=1)
RoundShots == 1

\* key_positions: the round indices (0-based) where the bases match
RECURSIVE KeyPositionsFrom(_, _, _)
KeyPositionsFrom(i, ab, bb) ==
    IF i > Len(ab) \/ i > Len(bb) THEN <<>>
    ELSE (IF ab[i] = bb[i] THEN <<i - 1>> ELSE <<>>)
         \o KeyPositionsFrom(i + 1, ab, bb)

\* (variant) keeps the rounds whose bases differ
KeyPositionsMismatch(ab, bb) ==
    KeyPositionsFrom(1, ab, [i \in 1..Len(bb) |-> 1 - bb[i]])

KeyPositions(ab, bb) == KeyPositionsFrom(1, ab, bb)

\* [lst[i] for i in idxs]
Pick(lst, idxs) == [j \in 1..Len(idxs) |-> lst[idxs[j] + 1]]

\* (variant) the tenth without the floor of one
RevealKNoFloor(n) == n \div 10

\* reveal_k = max(1, len(sifted_alice)//10)
RevealK(n) == Max(1, n \div 10)

\* random.sample(range(n), k): every ordered choice of k distinct indices;
\* ValueError when k exceeds the population
RandomSample(n, k) ==
    IF k > n THEN {[err |-> "ValueError", val |-> <<>>]}
    ELSE {[err |-> "none", val |-> s] :
            s \in {t \in [1..k -> 0..(n - 1)] :
                     \A i, j \in 1..k : i # j => t[i] # t[j]}}

\* (variant) samples from range(1, n+1)
RevealIndicesOffByOne(n, k) ==
    IF n > 0
    THEN {[err |-> r.err, val |-> [j \in 1..Len(r.val) |-> r.val[j] + 1]] :
            r \in RandomSample(n, k)}
    ELSE {[err |-> "none", val |-> <<>>]}

\* (variant) samples without testing for an empty sifted list
RevealIndicesUnguarded(n, k) == RandomSample(n, k)

\* random.sample(range(len(sifted_alice)), reveal_k) if len(...)>0 else []
RevealIndices(n, k) ==
    IF n > 0 THEN RandomSample(n, k) ELSE {[err |-> "none", val |-> <<>>]}

\* [b for idx,b in enumerate(sifted) if idx not in reveal]
RECURSIVE FinalKeyFrom(_, _, _)
FinalKeyFrom(i, sifted, reveal) ==
    IF i > Len(sifted) THEN <<>>
    ELSE (IF (i - 1) \notin Range(reveal) THEN <<sifted[i]>> ELSE <<>>)
         \o FinalKeyFrom(i + 1, sifted, reveal)

\* (variant) filters on the bit value instead of its index
FinalKeyByValue(sifted, reveal) ==
    SelectSeq(sifted, LAMBDA b : b \notin Range(reveal))

FinalKey(sifted, reveal) == FinalKeyFrom(1, sifted, reveal)

\* ------------------------------------------------------------ the codecs
HexDigits == <<"0", "1", "2", "3", "4", "5", "6", "7",
               "8", "9", "a", "b", "c", "d", "e", "f">>

\* the hexadecimal digits of x >= 0, most significant first
RECURSIVE ToHex(_)
ToHex(x) ==
    IF x < 16 THEN <<HexDigits[x + 1]>>
    ELSE Append(ToHex(x \div 16), HexDigits[(x % 16) + 1])

\* f"{x:02x}": lowercase hex, zero-padded to at least two characters
Format02x(x) == IF x < 16 THEN <<"0">> \o ToHex(x) ELSE ToHex(x)

\* ''.join(f"{x:02x}" for x in out)
RECURSIVE JoinHex(_)
JoinHex(out) ==
    IF out = <<>> THEN <<>> ELSE Format02x(Head(out)) \o JoinHex(Tail(out))

\* (b << 1) | bit, for b >= 0 and bit in {0,1}: the shifted value is even
ShiftOr(b, bit) == 2 * b + bit

\* [0] * n
Zeros(n) == [i \in 1..n |-> 0]

\* the loop `for i,bit in enumerate(bits)` shared by bits_to_hex and
\* bits_to_hex_str, from index i (0-based) with accumulator b and list out;
\* yields <<b, out>> as they stand after the loop
RECURSIVE PackLoop(_, _, _, _)
PackLoop(bs, i, b, out) ==
    IF i >= Len(bs) THEN <<b, out>>
    ELSE LET b2 == ShiftOr(b, bs[i + 1])
         IN IF (i + 1) % 8 = 0
            THEN PackLoop(bs, i + 1, 0, Append(out, b2))
            ELSE PackLoop(bs, i + 1, b2, out)

\* (variant) the unfinished last group is dropped
bits_to_hex_DropLeftover(bs) == JoinHex(PackLoop(bs, 0, 0, <<>>)[2])

\* bb84_demo.bits_to_hex
bits_to_hex(bs) ==
    LET r == PackLoop(bs, 0, 0, <<>>)
        rem == (8 - (Len(bs) % 8)) % 8
        out == IF rem # 0 THEN Append(r[2], r[1] * Pow2(rem)) ELSE r[2]
    IN JoinHex(out)

\* val = 0; for bit in byte_bits: val = (val << 1) | int(bit)
RECURSIVE ByteVal(_, _)
ByteVal(val, byte_bits) ==
    IF byte_bits = <<>> THEN val
    ELSE ByteVal(ShiftOr(val, Head(byte_bits)), Tail(byte_bits))

\* bits[i:i+8] for a 0-based i
Slice8(bs, i) ==
    SubSeq(bs, i + 1, IF i + 8 <= Len(bs) THEN i + 8 ELSE Len(bs))

\* (variant) the first bit of a group is taken as the least significant
RECURSIVE BytesLsbFirstFrom(_, _)
BytesLsbFirstFrom(bs, i) ==
    IF i >= Len(bs) THEN <<>>
    ELSE LET g == Slice8(bs, i) \o Zeros(8 - Len(Slice8(bs, i)))
         IN <<ByteVal(0, [k \in 1..8 |-> g[9 - k]])>>
            \o BytesLsbFirstFrom(bs, i + 8)

bits_to_bytes_LsbFirst(bs) == BytesLsbFirstFrom(bs, 0)

\* the loop `for i in range(0, len(bits), 8)` of bits_to_bytes
RECURSIVE BytesFrom(_, _)
BytesFrom(bs, i) ==
    IF i >= Len(bs) THEN <<>>
    ELSE LET byte_bits == Slice8(bs, i)
             padded == IF Len(byte_bits) < 8
                       THEN byte_bits \o Zeros(8 - Len(byte_bits))
                       ELSE byte_bits
         IN <<ByteVal(0, padded)>> \o BytesFrom(bs, i + 8)

\* quantum_rng.bits_to_bytes
bits_to_bytes(bs) == BytesFrom(bs, 0)

\* (variant) the padding goes in front of the bits
bits_to_hex_str_PadLeft(bs) ==
    LET pad == (8 - (Len(bs) % 8)) % 8
    IN JoinHex(PackLoop(Zeros(pad) \o bs, 0, 0, <<>>)[2])

\* quantum_password_demo.bits_to_hex_str
bits_to_hex_str(bs) ==
    LET n == Len(bs)
        pad == (8 - (n % 8)) % 8
        padded == bs \o Zeros(pad)
    IN JoinHex(PackLoop(padded, 0, 0, <<>>)[2])

\* bytes.hex(): two lowercase hex digits per byte
RECURSIVE BytesHex(_)
BytesHex(b) ==
    IF b = <<>> THEN <<>>
    ELSE <<HexDigits[(Head(b) \div 16) + 1], HexDigits[(Head(b) % 16) + 1]>>
         \o BytesHex(Tail(b))

\* The caller's list after each codec has run on it.  bits_to_hex only
\* reads it; bits_to_bytes pads a slice, which is a copy; bits_to_hex_str
\* rebinds its parameter to a new list (bits = bits + [0] * pad).
ArgAfter_bits_to_hex(bs) == bs

ArgAfter_bits_to_bytes(bs) == bs

\* (variant) pads in place: bits += [0] * pad
ArgAfter_bits_to_hex_str_InPlace(bs) == bs \o Zeros((8 - (Len(bs) % 8)) % 8)

ArgAfter_bits_to_hex_str(bs) == bs

EmptySession ==
    /\ alice_bits = <<>> /\ alice_bases = <<>> /\ bob_bases = <<>>
    /\ bob_results = <<>> /\ circuits = <<>> /\ inflight = <<>>
    /\ shots_log = <<>>
    /\ key_positions = <<>> /\ sifted_alice = <<>> /\ sifted_bob = <<>>
    /\ reveal_indices = <<>> /\ revealed_alice = <<>> /\ revealed_bob = <<>>
    /\ final_alice_key = <<>> /\ final_bob_key = <<>>
    /\ error = "none"

EmptyCodec ==
    /\ bits = <<>> /\ hex_out = <<>> /\ bytes_out = <<>> /\ hex_str_out = <<>>
    /\ applied = {}

EmptyGrover ==
    /\ g_call = <<>> /\ g_qc = <<>> /\ g_submitted = <<>>
    /\ g_error = "none" /\ g_r = 0

EmptyRng ==
    /\ rng_call = <<>> /\ rng_bits = <<>> /\ rng_batches = 0
    /\ rng_result = <<>>

EmptyDice == raw_rolls = <<>> /\ die_result = 0

EmptyCipher ==
    /\ c_call = <<>> /\ c_ct = <<>> /\ c_out = <<>> /\ c_error = "none"

EmptyOthers == EmptyGrover /\ EmptyRng /\ EmptyDice /\ EmptyCipher

Init ==
    /\ pc = "start"
    /\ EmptySession
    /\ EmptyCodec
    /\ EmptyOthers

\* lines 43-46: Alice's bits and both parties' bases are drawn
Draw ==
    /\ pc = "start"
    /\ \E n \in 0..MaxBits :
         /\ alice_bits' \in ListsOf(Bit, n)
         /\ alice_bases' \in ListsOf(Bit, n)
         /\ bob_bases' \in ListsOf(Bit, n)
    /\ pc' = "loop"
    /\ UNCHANGED <<bob_results, circuits, inflight, shots_log, key_positions,
                   sifted_alice, sifted_bob, reveal_indices, revealed_alice,
                   revealed_bob, final_alice_key, final_bob_key, error>>
    /\ UNCHANGED codecvars
    /\ UNCHANGED othervars

\* lines 48-60: the next round's circuit is built and submitted (shots=1)
Submit ==
    /\ pc = "loop"
    /\ Len(bob_results) < Len(alice_bits)
    /\ LET i == RoundIndex(bob_results)
           qc == RoundCircuit(alice_bits[i], alice_bases[i], bob_bases[i])
       IN /\ inflight' = <<qc>>
          /\ circuits' = Append(circuits, qc)
          /\ shots_log' = Append(shots_log, RoundShots)
    /\ pc' = "wait"
    /\ UNCHANGED <<alice_bits, alice_bases, bob_bases, bob_results,
                   key_positions, sifted_alice, sifted_bob, reveal_indices,
                   revealed_alice, revealed_bob, final_alice_key,
                   final_bob_key, error>>
    /\ UNCHANGED codecvars
    /\ UNCHANGED othervars

\* lines 60-63: the simulator answers with one outcome, which is appended
Measure ==
    /\ pc = "wait"
    /\ \E measured \in Outcomes(inflight[1]) :
         bob_results' = Append(bob_results, measured)
    /\ inflight' = <<>>
    /\ pc' = "loop"
    /\ UNCHANGED <<alice_bits, alice_bases, bob_bases, circuits, shots_log,
                   key_positions, sifted_alice, sifted_bob, reveal_indices,
                   revealed_alice, revealed_bob, final_alice_key,
                   final_bob_key, error>>
    /\ UNCHANGED codecvars
    /\ UNCHANGED othervars

\* lines 64-90: sifting, disclosure and key assembly.  A raise leaves the
\* locals assigned before it; indexing past the end is an IndexError.
SiftAndDisclose ==
    /\ pc = "loop"
    /\ Len(bob_results) = Len(alice_bits)
    /\ LET kp == KeyPositions(alice_bases, bob_bases)
           sa == Pick(alice_bits, kp)
           sb == Pick(bob_results, kp)
           reveal_k == RevealK(Len(sa))
       IN \E r \in RevealIndices(Len(sa), reveal_k) :
            /\ key_positions' = kp
            /\ sifted_alice' = sa
            /\ sifted_bob' = sb
            /\ IF r.err # "none"
               THEN /\ UNCHANGED <<reveal_indices, revealed_alice,
                                   revealed_bob, final_alice_key,
                                   final_bob_key>>
                    /\ error' = r.err
                    /\ pc' = "raised"
               ELSE IF \E j \in 1..Len(r.val) : r.val[j] >= Len(sa)
               THEN /\ reveal_indices' = r.val
                    /\ UNCHANGED <<revealed_alice, revealed_bob,
                                   final_alice_key, final_bob_key>>
                    /\ error' = "IndexError"
                    /\ pc' = "raised"
               ELSE /\ reveal_indices' = r.val
                    /\ revealed_alice' = Pick(sa, r.val)
                    /\ revealed_bob' = Pick(sb, r.val)
                    /\ final_alice_key' = FinalKey(sa, r.val)
                    /\ final_bob_key' = FinalKey(sb, r.val)
                    /\ error' = "none"
                    /\ pc' = "done"
    /\ UNCHANGED <<alice_bits, alice_bases, bob_bases, bob_results,
                   circuits, inflight, shots_log>>
    /\ UNCHANGED codecvars
    /\ UNCHANGED othervars

Next == Draw \/ Submit \/ Measure \/ SiftAndDisclose

Spec == Init /\ [][Next]_vars

\* ----------------------------------------- disclosure on longer sessions
\* The session as it stands at line 64 after n rounds in which every basis
\* pair matched (both parties chose Z throughout, Alice's bits alternate).
InitDisclose ==
    /\ pc = "loop"
    /\ \E n \in 0..MaxSifted :
         /\ alice_bits = [i \in 1..n |-> i % 2]
         /\ alice_bases = [i \in 1..n |-> 0]
         /\ bob_bases = [i \in 1..n |-> 0]
         /\ bob_results = [i \in 1..n |-> i % 2]
         /\ circuits = [i \in 1..n |-> RoundCircuit(i % 2, 0, 0)]
         /\ shots_log = [i \in 1..n |-> RoundShots]
    /\ inflight = <<>>
    /\ key_positions = <<>> /\ sifted_alice = <<>> /\ sifted_bob = <<>>
    /\ reveal_indices = <<>> /\ revealed_alice = <<>> /\ revealed_bob = <<>>
    /\ final_alice_key = <<>> /\ final_bob_key = <<>>
    /\ error = "none"
    /\ EmptyCodec
    /\ EmptyOthers

NextDisclose == SiftAndDisclose

SpecDisclose == InitDisclose /\ [][NextDisclose]_vars

\* ------------------------------------------------- the codecs on a list
\* a bit list of up to MaxCodecLen bits, not packed yet
InitCodec ==
    /\ pc = "codec"
    /\ EmptySession
    /\ \E n \in 0..MaxCodecLen : bits \in ListsOf(Bit, n)
    /\ hex_out = <<>> /\ bytes_out = <<>> /\ hex_str_out = <<>>
    /\ applied = {}
    /\ EmptyOthers

CallBitsToHex ==
    /\ pc = "codec"
    /\ "bits_to_hex" \notin applied
    /\ hex_out' = bits_to_hex(bits)
    /\ bits' = ArgAfter_bits_to_hex(bits)
    /\ applied' = applied \cup {"bits_to_hex"}
    /\ UNCHANGED othervars
    /\ UNCHANGED <<pc, bb84vars, bytes_out, hex_str_out>>

CallBitsToBytes ==
    /\ pc = "codec"
    /\ "bits_to_bytes" \notin applied
    /\ bytes_out' = bits_to_bytes(bits)
    /\ bits' = ArgAfter_bits_to_bytes(bits)
    /\ applied' = applied \cup {"bits_to_bytes"}
    /\ UNCHANGED othervars
    /\ UNCHANGED <<pc, bb84vars, hex_out, hex_str_out>>

CallBitsToHexStr ==
    /\ pc = "codec"
    /\ "bits_to_hex_str" \notin applied
    /\ hex_str_out' = bits_to_hex_str(bits)
    /\ bits' = ArgAfter_bits_to_hex_str(bits)
    /\ applied' = applied \cup {"bits_to_hex_str"}
    /\ UNCHANGED othervars
    /\ UNCHANGED <<pc, bb84vars, hex_out, bytes_out>>

NextCodec == CallBitsToHex \/ CallBitsToBytes \/ CallBitsToHexStr

SpecCodec == InitCodec /\ [][NextCodec]_vars

\* ------------------------------------------------------ the Grover demos
MAX_GROVER_QUBITS == 4

MAX_QUBITS == 4

SHOTS == 2000

\* one gate on the listed qubits
Gate(name, qubits) == <<[g |-> name, q |-> qubits]>>

\* `for i in range(n): <name>(i)`
OnEach(name, n) == [i \in 1..n |-> [g |-> name, q |-> <<i - 1>>]]

\* range(a, b) as a list
RangeList(a, b) == [i \in 1..(IF b > a THEN b - a ELSE 0) |-> a + i - 1]

\* the binary digits of x >= 0, most significant first
RECURSIVE BinDigits(_)
BinDigits(x) ==
    IF x < 2 THEN <<IF x = 1 THEN "1" ELSE "0">>
    ELSE Append(BinDigits(x \div 2), IF x % 2 = 1 THEN "1" ELSE "0")

\* the digits zero-padded on the left to width w
PadZeros(digits, w) ==
    IF Len(digits) >= w THEN digits
    ELSE [i \in 1..(w - Len(digits)) |-> "0"] \o digits

\* format(t, '0<w>b'): sign-aware zero padding to width w
FormatBin(t, w) ==
    IF t >= 0 THEN PadZeros(BinDigits(t), w)
    ELSE <<"-">> \o PadZeros(BinDigits(0 - t), w - 1)

\* `for i, b in enumerate(bits): if b == '0': qc.x(i)`
RECURSIVE XOnZerosFrom(_, _)
XOnZerosFrom(str, i) ==
    IF i > Len(str) THEN <<>>
    ELSE (IF str[i] = "0" THEN Gate("x", <<i - 1>>) ELSE <<>>)
         \o XOnZerosFrom(str, i + 1)

XOnZeros(str) == XOnZerosFrom(str, 1)

\* max(1, int(math.floor((math.pi/4) * math.sqrt(N)))) with N = 2**n:
\* the largest k with 4k <= pi * sqrt(N), pi taken as 355/113, which
\* gives the same floor for every N reached (2, 4, 8, 16)
RECURSIVE FloorQuarterPiSqrt(_, _)
FloorQuarterPiSqrt(N, k) ==
    IF (4 * (k + 1) * 113) * (4 * (k + 1) * 113) <= 355 * 355 * N
    THEN FloorQuarterPiSqrt(N, k + 1)
    ELSE k

grover_iterations(n_qubits) == Max(1, FloorQuarterPiSqrt(Pow2(n_qubits), 0))

\* r copies of a gate list
RECURSIVE Repeat(_, _)
Repeat(gates, r) == IF r <= 0 THEN <<>> ELSE gates \o Repeat(gates, r - 1)

\* the multi-controlled Z of both run_grover helpers
MultiControlledZ(n_qubits, ancillas) ==
    IF n_qubits = 1 THEN Gate("z", <<0>>)
    ELSE IF n_qubits = 2 THEN Gate("cz", <<0, 1>>)
    ELSE Gate("h", <<n_qubits - 1>>)
         \o Gate("mcx", RangeList(0, n_qubits - 1) \o <<n_qubits - 1>>
                         \o ancillas)
         \o Gate("h", <<n_qubits - 1>>)

build_phase_oracle(n_qubits, target_index, ancillas) ==
    LET str == FormatBin(target_index, n_qubits)
    IN XOnZeros(str) \o MultiControlledZ(n_qubits, ancillas) \o XOnZeros(str)

build_diffusion(n_qubits, ancillas) ==
    IF n_qubits = 0 THEN <<>>
    ELSE OnEach("h", n_qubits) \o OnEach("x", n_qubits)
         \o MultiControlledZ(n_qubits, ancillas)
         \o OnEach("x", n_qubits) \o OnEach("h", n_qubits)

\* a gate is accepted when each qubit index addresses one of the circuit's
\* qubits (negative indices count from the end); otherwise the circuit
\* library raises
GateFits(gate, total_qubits) ==
    \A j \in 1..Len(gate.q) :
      gate.q[j] \in (0 - total_qubits)..(total_qubits - 1)

\* the gates in order up to the first that does not fit
RECURSIVE Accepted(_, _)
Accepted(gates, total_qubits) ==
    IF gates = <<>> \/ ~GateFits(Head(gates), total_qubits) THEN <<>>
    ELSE <<Head(gates)>> \o Accepted(Tail(gates), total_qubits)

\* (variant) zero qubits pass the check
RunGroverRejectsBelowZero(n_qubits) == n_qubits < 0 \/ n_qubits > MAX_QUBITS

\* run_grover: if n_qubits < 1 or n_qubits > MAX_QUBITS: raise ValueError
RunGroverRejects(n_qubits) == n_qubits < 1 \/ n_qubits > MAX_QUBITS

\* the gates run_grover asks for, in order
RunGroverGates(n_qubits, target_index) ==
    LET total_qubits == n_qubits + Max(0, n_qubits - 2)
        ancillas == RangeList(n_qubits, total_qubits)
        r == grover_iterations(n_qubits)
    IN OnEach("h", n_qubits)
       \o Repeat(build_phase_oracle(n_qubits, target_index, ancillas)
                 \o build_diffusion(n_qubits, ancillas), r)
       \o OnEach("measure", n_qubits)

\* grover_search_demo: the checks in the order made; "none" if all pass
SearchDemoCheck(n_qubits, target_index) ==
    IF n_qubits > MAX_GROVER_QUBITS THEN "ValueError"
    ELSE IF n_qubits \notin {1, 2} THEN "NotImplementedError"
    ELSE IF target_index < 0 \/ target_index >= Pow2(n_qubits)
    THEN "ValueError"
    ELSE "none"

\* one oracle-plus-diffusion iteration of grover_search_demo
SearchDemoIteration(n_qubits, target_index) ==
    IF n_qubits = 1
    THEN (IF target_index = 1 THEN Gate("z", <<0>>) ELSE <<>>)
         \o Gate("h", <<0>>) \o Gate("z", <<0>>) \o Gate("h", <<0>>)
    ELSE LET str == FormatBin(target_index, 2)
             cz == Gate("h", <<n_qubits - 1>>)
                   \o Gate("cx", <<0, n_qubits - 1>>)
                   \o Gate("h", <<n_qubits - 1>>)
         IN XOnZeros(str) \o cz \o XOnZeros(str)
            \o Gate("h", <<0>>) \o Gate("x", <<0>>)
            \o Gate("h", <<1>>) \o Gate("x", <<1>>)
            \o cz
            \o Gate("x", <<0>>) \o Gate("h", <<0>>)
            \o Gate("x", <<1>>) \o Gate("h", <<1>>)

SearchDemoGates(n_qubits, target_index) ==
    OnEach("h", n_qubits)
    \o Repeat(SearchDemoIteration(n_qubits, target_index),
              grover_iterations(n_qubits))
    \o Gate("measure", RangeList(0, n_qubits))

InitGrover ==
    /\ pc = "grover_idle"
    /\ EmptySession
    /\ EmptyCodec
    /\ EmptyOthers

\* the call builds `gates` on a circuit of total_qubits qubits and runs it
BuildAndSubmit(gates, total_qubits, shots) ==
    LET built == Accepted(gates, total_qubits)
    IN /\ g_qc' = built
       /\ IF built = gates
          THEN /\ g_submitted' = <<[qc |-> built, shots |-> shots]>>
               /\ g_error' = "none"
               /\ pc' = "grover_wait"
          ELSE /\ g_submitted' = <<>>
               /\ g_error' = "CircuitError"
               /\ pc' = "grover_raised"

\* grover_search_demo(n_qubits, target_index, shots) up to SIM.run
CallGroverSearchDemo ==
    /\ pc = "grover_idle"
    /\ \E n \in (0 - 1)..MaxQubitsArg, t \in (0 - 2)..MaxTargetArg,
          shots \in {1024, 2048} :
         /\ g_call' = [fn |-> "grover_search_demo", n_qubits |-> n,
                       target_index |-> t, shots |-> shots]
         /\ IF SearchDemoCheck(n, t) # "none"
            THEN /\ g_error' = SearchDemoCheck(n, t)
                 /\ pc' = "grover_raised"
                 /\ UNCHANGED <<g_qc, g_submitted>>
            ELSE BuildAndSubmit(SearchDemoGates(n, t), n, shots)
    /\ UNCHANGED <<g_r, bb84vars, codecvars, rngvars, dicevars, ciphervars>>

\* run_grover(n_qubits, target_index) up to SIM.run
CallRunGrover ==
    /\ pc = "grover_idle"
    /\ \E n \in (0 - 1)..MaxQubitsArg, t \in (0 - 2)..MaxTargetArg :
         /\ g_call' = [fn |-> "run_grover", n_qubits |-> n,
                       target_index |-> t, shots |-> SHOTS]
         /\ IF RunGroverRejects(n)
            THEN /\ g_error' = "ValueError"
                 /\ pc' = "grover_raised"
                 /\ UNCHANGED <<g_qc, g_submitted>>
            ELSE BuildAndSubmit(RunGroverGates(n, t),
                                n + Max(0, n - 2), SHOTS)
    /\ UNCHANGED <<g_r, bb84vars, codecvars, rngvars, dicevars, ciphervars>>

\* the simulator's counts arrive and the call returns (counts, r, qc)
GroverReturn ==
    /\ pc = "grover_wait"
    /\ g_r' = grover_iterations(g_call.n_qubits)
    /\ pc' = "grover_done"
    /\ UNCHANGED <<g_call, g_qc, g_submitted, g_error, bb84vars, codecvars,
                   rngvars, dicevars, ciphervars>>

NextGrover == CallGroverSearchDemo \/ CallRunGrover \/ GroverReturn

SpecGrover == InitGrover /\ [][NextGrover]_vars

\* ------------------------------------------------- the bit generators
\* quantum_random_bits: shots = 1024; also quantum_bits' default
DefaultShots == 1024

\* qc.h(0); qc.measure(0, 0)
RngCircuit == <<"h">>

\* int(bit_str) for the one-character keys of a one-bit count table
IntOfBitStr(str) == IF str = "1" THEN 1 ELSE 0

BitStr(b) == IF b = 1 THEN "1" ELSE "0"

\* The count tables a run of qc with `shots` shots can return, as lists of
\* <<key, count>> in the table's iteration order: the keys are outcomes
\* the circuit can yield, each seen at least once, the counts sum to shots.
CountTables(qc, shots) ==
    {<<<<BitStr(b), shots>>>> : b \in Outcomes(qc)}
    \cup {<<<<BitStr(b), c>>, <<BitStr(1 - b), shots - c>>>> :
            b \in {x \in Outcomes(qc) : (1 - x) \in Outcomes(qc)},
            c \in 1..(shots - 1)}

\* (variant) floor instead of ceiling
RunsFloor(n_bits, shots) == n_bits \div shots

\* runs = math.ceil(n_bits / shots)
Runs(n_bits, shots) == (n_bits + shots - 1) \div shots

\* (variant) the two values are laid out alternately
ExpandAlternating(b, cnt) == [i \in 1..cnt |-> IF i % 2 = 1 THEN b ELSE 1 - b]

\* [b] * cnt
Expand(b, cnt) == [i \in 1..cnt |-> b]

\* bits[:n]
Prefix(lst, n) == SubSeq(lst, 1, IF n < Len(lst) THEN n ELSE Len(lst))

\* the inner loop `for bit_str, cnt in counts.items()`: extends the list
\* and returns as soon as it holds n_bits bits
RECURSIVE ConsumeCounts(_, _, _)
ConsumeCounts(lst, items, n_bits) ==
    IF items = <<>> THEN [returned |-> FALSE, bits |-> lst]
    ELSE LET ext == lst \o Expand(IntOfBitStr(Head(items)[1]), Head(items)[2])
         IN IF Len(ext) >= n_bits
            THEN [returned |-> TRUE, bits |-> Prefix(ext, n_bits)]
            ELSE ConsumeCounts(ext, Tail(items), n_bits)

InitRng ==
    /\ pc = "rng_idle"
    /\ EmptySession
    /\ EmptyCodec
    /\ EmptyOthers

\* quantum_bits(n_bits, shots_per_run) or quantum_random_bits(n_bits) is
\* entered
RngCall ==
    /\ pc = "rng_idle"
    /\ \E n \in 0..MaxRngBits :
         \/ \E sh \in (1..MaxShots) \cup {DefaultShots} :
              rng_call' = [fn |-> "quantum_bits", n_bits |-> n, shots |-> sh]
         \/ rng_call' = [fn |-> "quantum_random_bits", n_bits |-> n,
                         shots |-> DefaultShots]
    /\ pc' = "rng_loop"
    /\ UNCHANGED <<rng_bits, rng_batches, rng_result>>
    /\ UNCHANGED <<bb84vars, codecvars, grovervars, dicevars, ciphervars>>

\* one pass of `for _ in range(runs)`: a batch is run and its counts are
\* expanded into the list
RngBatch ==
    /\ pc = "rng_loop"
    /\ rng_batches < Runs(rng_call.n_bits, rng_call.shots)
    /\ \E counts \in CountTables(RngCircuit, rng_call.shots) :
         LET c == ConsumeCounts(rng_bits, counts, rng_call.n_bits)
         IN IF c.returned
            THEN /\ rng_result' = c.bits
                 /\ rng_bits' = <<>>
                 /\ pc' = "rng_returned"
            ELSE /\ rng_bits' = c.bits
                 /\ pc' = "rng_loop"
                 /\ UNCHANGED rng_result
    /\ rng_batches' = rng_batches + 1
    /\ UNCHANGED rng_call
    /\ UNCHANGED <<bb84vars, codecvars, grovervars, dicevars, ciphervars>>

\* the loop is exhausted: return bits[:n_bits]
RngLoopEnd ==
    /\ pc = "rng_loop"
    /\ rng_batches >= Runs(rng_call.n_bits, rng_call.shots)
    /\ rng_result' = Prefix(rng_bits, rng_call.n_bits)
    /\ rng_bits' = <<>>
    /\ pc' = "rng_returned"
    /\ UNCHANGED <<rng_call, rng_batches>>
    /\ UNCHANGED <<bb84vars, codecvars, grovervars, dicevars, ciphervars>>

NextRng == RngCall \/ RngBatch \/ RngLoopEnd

SpecRng == InitRng /\ [][NextRng]_vars

\* --------------------------------------------------------------- the die
\* roll_die_once's circuit: h on qubits 0, 1, 2, each measured into the
\* classical bit of the same index; no gate couples the qubits, so each
\* bit is an outcome of its own one-qubit circuit.  The key is written
\* with classical bit 2 first.
DieKeys ==
    {<<BitStr(b2), BitStr(b1), BitStr(b0)>> :
       b2 \in Outcomes(<<"h">>), b1 \in Outcomes(<<"h">>),
       b0 \in Outcomes(<<"h">>)}

\* int(measured, 2)
RECURSIVE IntBase2(_, _)
IntBase2(acc, str) ==
    IF str = <<>> THEN acc
    ELSE IntBase2(2 * acc + IntOfBitStr(Head(str)), Tail(str))

\* (variant) the bound is off by one
DieAcceptsUpToSix(v) == v <= 6

\* (variant) the test can never pass
DieAcceptsNothing(v) == v < 0

\* `if v < 6`
DieAccepts(v) == v < 6

\* the log of rolls with v added; once MaxRolls long, v takes the last place
Logged(log, v) ==
    IF Len(log) < MaxRolls THEN Append(log, v)
    ELSE [log EXCEPT ![Len(log)] = v]

InitDice ==
    /\ pc = "die_rolling"
    /\ EmptySession
    /\ EmptyCodec
    /\ EmptyOthers

\* a pass of `while True` whose roll is rejected
DieRollAgain ==
    /\ pc = "die_rolling"
    /\ \E measured \in DieKeys :
         LET v == IntBase2(0, measured)
         IN /\ ~DieAccepts(v)
            /\ raw_rolls' = Logged(raw_rolls, v)
    /\ UNCHANGED <<pc, die_result>>
    /\ UNCHANGED <<bb84vars, codecvars, grovervars, rngvars, ciphervars>>

\* a pass of `while True` whose roll is accepted: return v + 1
DieRollReturn ==
    /\ pc = "die_rolling"
    /\ \E measured \in DieKeys :
         LET v == IntBase2(0, measured)
         IN /\ DieAccepts(v)
            /\ raw_rolls' = Logged(raw_rolls, v)
            /\ die_result' = v + 1
    /\ pc' = "die_returned"
    /\ UNCHANGED <<bb84vars, codecvars, grovervars, rngvars, ciphervars>>

NextDice == DieRollAgain \/ DieRollReturn

SpecDice == InitDice /\ [][NextDice]_vars

\* the simulator does not withhold the values below 6 for ever
SpecDiceFair == SpecDice /\ WF_vars(DieRollReturn)

\* ------------------------------------------------------- the toy cipher
\* A str is a list of code points, a bytes object a list of 0..255.

IsSurrogate(cp) == cp >= 55296 /\ cp <= 57343

\* the UTF-8 bytes of one code point that is not a surrogate
Utf8OfCodePoint(cp) ==
    IF cp < 128 THEN <<cp>>
    ELSE IF cp < 2048 THEN <<192 + (cp \div 64), 128 + (cp % 64)>>
    ELSE IF cp < 65536
    THEN <<224 + (cp \div 4096), 128 + ((cp \div 64) % 64), 128 + (cp % 64)>>
    ELSE <<240 + (cp \div 262144), 128 + ((cp \div 4096) % 64),
           128 + ((cp \div 64) % 64), 128 + (cp % 64)>>

RECURSIVE Utf8Bytes(_)
Utf8Bytes(str) ==
    IF str = <<>> THEN <<>>
    ELSE Utf8OfCodePoint(Head(str)) \o Utf8Bytes(Tail(str))

\* str.encode('utf-8'): a lone surrogate cannot be encoded
Utf8Encode(str) ==
    IF \E i \in 1..Len(str) : IsSurrogate(str[i])
    THEN [err |-> "UnicodeEncodeError", val |-> <<>>]
    ELSE [err |-> "none", val |-> Utf8Bytes(str)]

IsCont(b) == b >= 128 /\ b <= 191

\* the second byte a lead byte admits (excludes overlong forms, surrogates
\* and code points above U+10FFFF)
SecondOk(b0, b1) ==
    IF b0 = 224 THEN b1 >= 160 /\ b1 <= 191
    ELSE IF b0 = 237 THEN b1 >= 128 /\ b1 <= 159
    ELSE IF b0 = 240 THEN b1 >= 144 /\ b1 <= 191
    ELSE IF b0 = 244 THEN b1 >= 128 /\ b1 <= 143
    ELSE IsCont(b1)

\* the decoder at 1-based position i of b: the code point and its width,
\* or on a malformed sequence the number of bytes that form its longest
\* well-formed start (at least one)
DecodeAt(b, i) ==
    LET n == Len(b)
        b0 == b[i]
        has1 == i + 1 <= n /\ SecondOk(b0, b[i + 1])
        has2 == has1 /\ i + 2 <= n /\ IsCont(b[i + 2])
        has3 == has2 /\ i + 3 <= n /\ IsCont(b[i + 3])
    IN IF b0 < 128 THEN [ok |-> TRUE, cp |-> b0, len |-> 1]
       ELSE IF b0 >= 194 /\ b0 <= 223
       THEN IF has1
            THEN [ok |-> TRUE, cp |-> (b0 - 192) * 64 + (b[i + 1] - 128),
                  len |-> 2]
            ELSE [ok |-> FALSE, cp |-> 65533, len |-> 1]
       ELSE IF b0 >= 224 /\ b0 <= 239
       THEN IF has2
            THEN [ok |-> TRUE,
                  cp |-> (b0 - 224) * 4096 + (b[i + 1] - 128) * 64
                         + (b[i + 2] - 128),
                  len |-> 3]
            ELSE [ok |-> FALSE, cp |-> 65533, len |-> IF has1 THEN 2 ELSE 1]
       ELSE IF b0 >= 240 /\ b0 <= 244
       THEN IF has3
            THEN [ok |-> TRUE,
                  cp |-> (b0 - 240) * 262144 + (b[i + 1] - 128) * 4096
                         + (b[i + 2] - 128) * 64 + (b[i + 3] - 128),
                  len |-> 4]
            ELSE [ok |-> FALSE, cp |-> 65533,
                  len |-> IF has2 THEN 3 ELSE IF has1 THEN 2 ELSE 1]
       ELSE [ok |-> FALSE, cp |-> 65533, len |-> 1]

\* decoding from position i; malformed sequences become U+FFFD and are
\* counted
RECURSIVE DecodeFrom(_, _)
DecodeFrom(b, i) ==
    IF i > Len(b) THEN [bad |-> 0, val |-> <<>>]
    ELSE LET d == DecodeAt(b, i)
             rest == DecodeFrom(b, i + d.len)
         IN [bad |-> rest.bad + (IF d.ok THEN 0 ELSE 1),
             val |-> <<d.cp>> \o rest.val]

\* try: pt.decode('utf-8', errors='strict')
\* except Exception: pt.decode('utf-8', errors='replace')
DecodeBestEffort(b) == DecodeFrom(b, 1).val

\* a ^ b on the low k bits
RECURSIVE XorBits(_, _, _)
XorBits(a, b, k) ==
    IF k = 0 THEN 0
    ELSE ((a + b) % 2) + 2 * XorBits(a \div 2, b \div 2, k - 1)

\* (variant) stops at the end of the key instead of repeating it
xor_stream_NoRepeat(data_bytes, key_bytes) ==
    [i \in 1..(IF Len(data_bytes) < Len(key_bytes) THEN Len(data_bytes)
               ELSE Len(key_bytes)) |->
       XorBits(data_bytes[i], key_bytes[i], 8)]

\* out[i] = b ^ key_bytes[i % klen] (i 0-based); the key is never empty
xor_stream(data_bytes, key_bytes) ==
    LET klen == Len(key_bytes)
    IN [i \in 1..Len(data_bytes) |->
          XorBits(data_bytes[i], key_bytes[((i - 1) % klen) + 1], 8)]

\* the base64 alphabet as ASCII codes: A-Z, a-z, 0-9, +, /
B64Alphabet ==
    [i \in 1..64 |->
       IF i <= 26 THEN 64 + i
       ELSE IF i <= 52 THEN 96 + (i - 26)
       ELSE IF i <= 62 THEN 47 + (i - 52)
       ELSE IF i = 63 THEN 43 ELSE 47]

B64Pad == 61

\* base64.b64encode
RECURSIVE B64Encode(_)
B64Encode(b) ==
    IF b = <<>> THEN <<>>
    ELSE IF Len(b) = 1
    THEN <<B64Alphabet[(b[1] \div 4) + 1], B64Alphabet[((b[1] % 4) * 16) + 1],
           B64Pad, B64Pad>>
    ELSE IF Len(b) = 2
    THEN <<B64Alphabet[(b[1] \div 4) + 1],
           B64Alphabet[((b[1] % 4) * 16 + (b[2] \div 16)) + 1],
           B64Alphabet[((b[2] % 16) * 4) + 1], B64Pad>>
    ELSE <<B64Alphabet[(b[1] \div 4) + 1],
           B64Alphabet[((b[1] % 4) * 16 + (b[2] \div 16)) + 1],
           B64Alphabet[((b[2] % 16) * 4 + (b[3] \div 64)) + 1],
           B64Alphabet[(b[3] % 64) + 1]>>
         \o B64Encode(SubSeq(b, 4, Len(b)))

\* bytes.decode('ascii') of base64 output: every byte is below 128 and
\* becomes the code point of the same value
AsciiDecode(b) == [i \in 1..Len(b) |-> b[i] % 128]

\* the six-bit value of an alphabet character
B64Value(c) == (CHOOSE v \in 1..64 : B64Alphabet[v] = c) - 1

\* base64.b64decode of a padded string over the alphabet; a length that is
\* not a multiple of four is an error
RECURSIVE B64DecodeGroups(_)
B64DecodeGroups(str) ==
    IF str = <<>> THEN <<>>
    ELSE LET v1 == B64Value(str[1])
             v2 == B64Value(str[2])
         IN IF str[3] = B64Pad
            THEN <<v1 * 4 + (v2 \div 16)>>
            ELSE IF str[4] = B64Pad
            THEN <<v1 * 4 + (v2 \div 16),
                   (v2 % 16) * 16 + (B64Value(str[3]) \div 4)>>
            ELSE <<v1 * 4 + (v2 \div 16),
                   (v2 % 16) * 16 + (B64Value(str[3]) \div 4),
                   (B64Value(str[3]) % 4) * 64 + B64Value(str[4])>>
                 \o B64DecodeGroups(SubSeq(str, 5, Len(str)))

B64Decode(str) ==
    IF Len(str) % 4 # 0 THEN [err |-> "binascii.Error", val |-> <<>>]
    ELSE [err |-> "none", val |-> B64DecodeGroups(str)]

RECURSIVE SumSeq(_)
SumSeq(q) == IF q = <<>> THEN 0 ELSE Head(q) + SumSeq(Tail(q))

\* hashlib.sha256(data).digest() is not computed here: this 32-byte value
\* stands for it.  The cipher uses the digest only as a key that is the
\* same for the same data and 32 bytes long.
Digest32(data) ==
    [i \in 1..32 |->
       (31 * SumSeq(data) + 13 * Len(data) + 7 * i + ((i * i) % 251)) % 256]

\* key_from_bits: SHA-256 of the bits written as '0'/'1' characters
key_from_bits(bs) == Digest32([i \in 1..Len(bs) |-> 48 + bs[i]])

\* key_from_password_str: SHA-256 of the UTF-8 bytes of the password
key_from_password_str(pw) ==
    LET e == Utf8Encode(pw)
    IN [err |-> e.err, val |-> Digest32(e.val)]

\* bytes([key_int & 0xFF])
key_byte(key_int) == <<key_int % 256>>

\* the three encrypt functions: the key is derived, the plaintext encoded,
\* XORed with the key stream and written as a base64 string
EncryptWith(key, plaintext) ==
    LET pt == Utf8Encode(plaintext)
    IN IF key.err # "none" THEN [err |-> key.err, val |-> <<>>]
       ELSE IF pt.err # "none" THEN [err |-> pt.err, val |-> <<>>]
       ELSE [err |-> "none",
             val |-> AsciiDecode(B64Encode(xor_stream(pt.val, key.val)))]

\* the three decrypt functions: base64 is undone, the bytes XORed with the
\* key stream and decoded; decrypt_with_bits reports bad base64 as
\* ValueError
DecryptWith(mode, key, ciphertext_b64) ==
    LET ct == B64Decode(ciphertext_b64)
    IN IF ct.err # "none"
       THEN [err |-> IF mode = "bits" THEN "ValueError" ELSE ct.err,
             val |-> <<>>]
       ELSE IF key.err # "none" THEN [err |-> key.err, val |-> <<>>]
       ELSE [err |-> "none",
             val |-> DecodeBestEffort(xor_stream(ct.val, key.val))]

\* the key bytes each mode derives from its key material
KeyOf(mode, key) ==
    IF mode = "bits" THEN [err |-> "none", val |-> key_from_bits(key)]
    ELSE IF mode = "password" THEN key_from_password_str(key)
    ELSE [err |-> "none", val |-> key_byte(key)]

\* code points of 1, 2, 3 and 4 UTF-8 bytes, and a lone surrogate
CodePoints == {65, 233, 8364, 128512, 55296}

\* a plaintext longer than a 32-byte key
LongPlaintext ==
    <<65, 233, 8364, 128512, 65, 233, 8364, 128512, 65, 233, 8364, 128512,
      65, 233>>

Plaintexts ==
    (UNION {ListsOf(CodePoints, n) : n \in 0..MaxPtLen}) \cup {LongPlaintext}

KeyMaterial(mode) ==
    IF mode = "bits" THEN UNION {ListsOf(Bit, n) : n \in 0..2}
    ELSE IF mode = "password" THEN {<<>>, <<112, 119>>, <<233>>, <<55296>>}
    ELSE {0 - 1, 0, 1, 65, 255, 300}

InitCipher ==
    /\ pc = "cipher_idle"
    /\ EmptySession
    /\ EmptyCodec
    /\ EmptyOthers

\* encrypt_with_bits, encrypt_with_password_str or toy_xor_encrypt_int_key
CipherEncrypt ==
    /\ pc = "cipher_idle"
    /\ \E mode \in {"bits", "password", "int_key"} :
         \E key \in KeyMaterial(mode), plaintext \in Plaintexts :
           LET r == EncryptWith(KeyOf(mode, key), plaintext)
           IN /\ c_call' = [mode |-> mode, key |-> key,
                            plaintext |-> plaintext]
              /\ c_ct' = r.val
              /\ c_error' = r.err
              /\ pc' = IF r.err = "none" THEN "cipher_encrypted"
                       ELSE "cipher_raised"
    /\ UNCHANGED c_out
    /\ UNCHANGED <<bb84vars, codecvars, grovervars, rngvars, dicevars>>

\* the matching decrypt function, with the same key material, on the
\* ciphertext string
CipherDecrypt ==
    /\ pc = "cipher_encrypted"
    /\ LET r == DecryptWith(c_call.mode, KeyOf(c_call.mode, c_call.key), c_ct)
       IN /\ c_out' = r.val
          /\ c_error' = r.err
          /\ pc' = IF r.err = "none" THEN "cipher_decrypted"
                   ELSE "cipher_raised"
    /\ UNCHANGED <<c_call, c_ct>>
    /\ UNCHANGED <<bb84vars, codecvars, grovervars, rngvars, dicevars>>

NextCipher == CipherEncrypt \/ CipherDecrypt

SpecCipher == InitCipher /\ [][NextCipher]_vars

\* ================================================================ claims
Finished == pc \in {"done", "raised"}

Distinct(s) == \A i, j \in 1..Len(s) : i # j => s[i] # s[j]

\* C1 (as stated): the disclosed indices (revealed_indices) are a subset of
\* the sifted round indices (sifted_positions).
C1_DisclosedSubsetOfSiftedPositions ==
    Finished => Range(reveal_indices) \subseteq Range(key_positions)

\* C1 (amended): every disclosed index is a position of the sifted list
\* (0 .. len(sifted)-1), and the round that position stands for,
\* sifted_positions[index], is a round whose bases matched.
C1_DisclosedWithinSiftedList ==
    Finished =>
      \A j \in 1..Len(reveal_indices) :
        /\ reveal_indices[j] \in 0..(Len(key_positions) - 1)
        /\ LET rnd == key_positions[reveal_indices[j] + 1] + 1
           IN /\ rnd \in 1..Len(alice_bases)
              /\ alice_bases[rnd] = bob_bases[rnd]

\* a session whose disclosed position is not itself a sifted round index
C1_Witness ==
    /\ pc = "done"
    /\ reveal_indices # <<>>
    /\ ~(Range(reveal_indices) \subseteq Range(key_positions))

\* the bits of s at the positions (0-based) not in drop, in order: the bit
\* at undropped position i lands at rank |{i' <= i : i' undropped}|
IsRemainder(final, s, drop) ==
    /\ Len(final) = Len(s) - Len(drop)
    /\ \A i \in 0..(Len(s) - 1) :
         i \notin Range(drop) =>
           LET rank == Cardinality({i2 \in 0..i : i2 \notin Range(drop)})
           IN rank <= Len(final) /\ final[rank] = s[i + 1]

\* C2: the final key is the sifted bits with the disclosed ones removed, in
\* round order, so len(final) = len(sifted) - len(revealed), for both keys.
C2_FinalKeyIsSiftedMinusDisclosed ==
    pc = "done" =>
      /\ IsRemainder(final_alice_key, sifted_alice, reveal_indices)
      /\ IsRemainder(final_bob_key, sifted_bob, reveal_indices)

\* a session that disclosed a bit and kept bits on both sides of it
C2_Witness ==
    /\ pc = "done"
    /\ Len(sifted_alice) = 3
    /\ reveal_indices = <<1>>
    /\ Len(final_alice_key) = 2

\* C3: in every measured round with equal bases Bob's bit is Alice's bit.
C3_SameBasisAgrees ==
    \A i \in 1..Len(bob_results) :
      alice_bases[i] = bob_bases[i] => bob_results[i] = alice_bits[i]

\* measured same-basis rounds covering both bases and both bit values
C3_Witness ==
    \E i, j \in 1..Len(bob_results) :
      /\ alice_bases[i] = 0 /\ bob_bases[i] = 0
      /\ alice_bases[j] = 1 /\ bob_bases[j] = 1
      /\ alice_bits[i] # alice_bits[j]
      /\ \E k \in 1..Len(bob_results) :
           /\ alice_bases[k] = 1 /\ bob_bases[k] = 1
           /\ alice_bits[k] # alice_bits[j]

\* C4: in every round with different bases the submitted circuit yields 0
\* with probability 1/2 and 1 with probability 1/2, whatever Alice's bit,
\* and the recorded bit is one of the two.
C4_DifferentBasisIsFairCoin ==
    \A i \in 1..Len(circuits) :
      alice_bases[i] # bob_bases[i] =>
        /\ 2 * ProbNum(circuits[i], 0) = ProbDen(circuits[i])
        /\ 2 * ProbNum(circuits[i], 1) = ProbDen(circuits[i])
        /\ i <= Len(bob_results) => bob_results[i] \in Bit

\* different-basis rounds with the same sender bit measured to 0 and to 1,
\* and a different-basis round whose result differs from the sender bit
C4_Witness ==
    \E i, j \in 1..Len(bob_results) :
      /\ alice_bases[i] # bob_bases[i]
      /\ alice_bases[j] # bob_bases[j]
      /\ alice_bits[i] = alice_bits[j]
      /\ bob_results[i] = 0 /\ bob_results[j] = 1

StrictlyIncreasing(s) == \A i, j \in 1..Len(s) : i < j => s[i] < s[j]

\* C5: sifting keeps exactly the round indices with equal bases, in
\* increasing order, and the sifted lists hold those rounds' bits.
C5_SiftingKeepsMatchingRounds ==
    Finished =>
      /\ Range(key_positions) =
           {i - 1 : i \in {r \in 1..Len(alice_bases) :
                              alice_bases[r] = bob_bases[r]}}
      /\ StrictlyIncreasing(key_positions)
      /\ Len(sifted_alice) = Len(key_positions)
      /\ Len(sifted_bob) = Len(key_positions)
      /\ \A k \in 1..Len(key_positions) :
           /\ sifted_alice[k] = alice_bits[key_positions[k] + 1]
           /\ sifted_bob[k] = bob_results[key_positions[k] + 1]

\* a session that kept two rounds and discarded one between them
C5_Witness ==
    /\ pc = "done"
    /\ key_positions = <<0, 2>>

\* fractions a caller might ask for, as <<numerator, denominator>>
DiscloseFractions == {<<1, 10>>, <<1, 2>>, <<1, 1>>}

\* C6 (as stated): with a non-empty sifted set the session discloses
\* max(1, floor(f * len(sifted))) distinct indices for the fraction f the
\* caller passes.
C6_CountFollowsCallerFraction ==
    \A f \in DiscloseFractions :
      (pc = "done" /\ Len(sifted_alice) > 0) =>
        /\ Len(reveal_indices) =
             Max(1, (f[1] * Len(sifted_alice)) \div f[2])
        /\ Distinct(reveal_indices)
        /\ Len(reveal_indices) <= Len(sifted_alice)

\* C6 (amended): with a non-empty sifted set the session discloses
\* max(1, floor(len(sifted) / 10)) pairwise-distinct indices (the fraction
\* is fixed at one tenth); 100 sifted bits give 10; the count never
\* exceeds len(sifted).
C6_CountIsTenthAtLeastOne ==
    /\ (Finished /\ Len(sifted_alice) > 0) =>
         /\ pc = "done"
         /\ LET n == Len(sifted_alice)
                k == Len(reveal_indices)
            IN /\ n < 10 => k = 1
               /\ n >= 10 => (10 * k <= n /\ n < 10 * (k + 1))
               /\ k <= n
         /\ Distinct(reveal_indices)
    /\ RevealK(100) = 10

\* a session with twenty sifted bits, two of them disclosed
C6_Witness ==
    /\ pc = "done"
    /\ Len(sifted_alice) = 20
    /\ Len(reveal_indices) = 2

\* C7: when no round has matching bases the session ends without an error
\* and its disclosed set, revealed pairs and final keys are empty.
C7_EmptySiftedIsNotAnError ==
    (Finished /\ \A i \in 1..Len(alice_bases) : alice_bases[i] # bob_bases[i])
      => /\ pc = "done"
         /\ error = "none"
         /\ reveal_indices = <<>>
         /\ revealed_alice = <<>> /\ revealed_bob = <<>>
         /\ final_alice_key = <<>> /\ final_bob_key = <<>>

\* a finished session of several rounds, none with matching bases
C7_Witness ==
    /\ pc = "done"
    /\ Len(alice_bases) >= 2
    /\ \A i \in 1..Len(alice_bases) : alice_bases[i] # bob_bases[i]

\* the value of hex digit c
HexVal(c) == (CHOOSE d \in 1..16 : HexDigits[d] = c) - 1

\* the byte written as characters 2j+1, 2j+2 (j 0-based) of hex string h
HexByte(h, j) == 16 * HexVal(h[2 * j + 1]) + HexVal(h[2 * j + 2])

\* bit k (0-based) of the list, 0 beyond its end
BitAt(bs, k) == IF k + 1 <= Len(bs) THEN bs[k + 1] ELSE 0

\* sum of b_k * 2^(7-k) over the eight bits of group j (0-based)
GroupValue(bs, j) ==
    128 * BitAt(bs, 8 * j) + 64 * BitAt(bs, 8 * j + 1)
    + 32 * BitAt(bs, 8 * j + 2) + 16 * BitAt(bs, 8 * j + 3)
    + 8 * BitAt(bs, 8 * j + 4) + 4 * BitAt(bs, 8 * j + 5)
    + 2 * BitAt(bs, 8 * j + 6) + BitAt(bs, 8 * j + 7)

\* C8: each complete group of 8 bits is packed most-significant bit first
\* into one byte, by bits_to_bytes and by bits_to_hex; 1,0,1,0,1,0,1,0
\* packs to the single byte 0xAA.
C8_CompleteGroupsPackMsbFirst ==
    /\ "bits_to_bytes" \in applied =>
         /\ \A j \in 0..((Len(bits) \div 8) - 1) :
              j + 1 <= Len(bytes_out) /\ bytes_out[j + 1] = GroupValue(bits, j)
         /\ bits = <<1, 0, 1, 0, 1, 0, 1, 0>> => bytes_out = <<170>>
    /\ "bits_to_hex" \in applied =>
         /\ \A j \in 0..((Len(bits) \div 8) - 1) :
              2 * j + 2 <= Len(hex_out) /\ HexByte(hex_out, j) = GroupValue(bits, j)
         /\ bits = <<1, 0, 1, 0, 1, 0, 1, 0>> => hex_out = <<"a", "a">>

\* both codecs applied to 1,0,1,0,1,0,1,0
C8_Witness ==
    /\ {"bits_to_bytes", "bits_to_hex"} \subseteq applied
    /\ bits = <<1, 0, 1, 0, 1, 0, 1, 0>>

CeilDiv8(n) == (n + 7) \div 8

\* C9: the output has ceil(len(bits)/8) bytes; when len(bits) is not a
\* multiple of 8 the last byte is the final group zero-padded on the right;
\* 1,1 packs to the single byte 0xC0.
C9_PartialGroupZeroPaddedRight ==
    /\ "bits_to_bytes" \in applied =>
         /\ Len(bytes_out) = CeilDiv8(Len(bits))
         /\ Len(bits) % 8 # 0 =>
              bytes_out[Len(bytes_out)] = GroupValue(bits, Len(bits) \div 8)
         /\ bits = <<1, 1>> => bytes_out = <<192>>
    /\ "bits_to_hex" \in applied =>
         /\ Len(hex_out) = 2 * CeilDiv8(Len(bits))
         /\ Len(bits) % 8 # 0 =>
              HexByte(hex_out, Len(bits) \div 8)
                = GroupValue(bits, Len(bits) \div 8)
         /\ bits = <<1, 1>> => hex_out = <<"c", "0">>

\* both codecs applied to a list of one full group and one trailing 1 bit
C9_Witness ==
    /\ {"bits_to_bytes", "bits_to_hex"} \subseteq applied
    /\ Len(bits) = 9
    /\ bits[9] = 1

PaddedToByte(bs) == bs \o Zeros((8 - (Len(bs) % 8)) % 8)

\* C10: a list whose length is not a multiple of 8 packs to the same output
\* as the longer list obtained by appending zeros up to the next multiple
\* of 8, for bits_to_hex and for bits_to_hex_str.
C10_PackingForgetsLength ==
    Len(bits) % 8 # 0 =>
      /\ Len(PaddedToByte(bits)) # Len(bits)
      /\ "bits_to_hex" \in applied =>
           hex_out = bits_to_hex(PaddedToByte(bits))
      /\ "bits_to_hex_str" \in applied =>
           hex_str_out = bits_to_hex_str(PaddedToByte(bits))

\* both codecs applied to a non-zero list that needs padding
C10_Witness ==
    /\ {"bits_to_hex_str", "bits_to_hex"} \subseteq applied
    /\ Len(bits) = 3
    /\ bits[3] = 1

\* C13: the session submits its circuits one at a time, each with one
\* shot and in round order, never with two results outstanding; a round is
\* submitted only when all earlier rounds are measured; sifting and
\* disclosure happen only once all n_bits rounds are measured, after
\* exactly n_bits submissions.
C13_OracleCallsAreSequential ==
    /\ Len(circuits) = Len(shots_log)
    /\ \A i \in 1..Len(shots_log) : shots_log[i] = 1
    /\ Len(circuits) <= Len(alice_bits)
    /\ \A i \in 1..Len(circuits) :
         circuits[i] = (IF alice_bits[i] = 1 THEN <<"x">> ELSE <<>>)
                       \o (IF alice_bases[i] = 1 THEN <<"h">> ELSE <<>>)
                       \o (IF bob_bases[i] = 1 THEN <<"h">> ELSE <<>>)
    /\ pc = "wait" =>
         /\ Len(circuits) = Len(bob_results) + 1
         /\ inflight = <<circuits[Len(circuits)]>>
    /\ pc \in {"start", "loop", "done", "raised"} =>
         /\ Len(circuits) = Len(bob_results)
         /\ inflight = <<>>
    /\ pc \in {"start", "loop", "wait"} =>
         /\ key_positions = <<>> /\ sifted_alice = <<>> /\ sifted_bob = <<>>
         /\ reveal_indices = <<>>
         /\ final_alice_key = <<>> /\ final_bob_key = <<>>
    /\ Finished =>
         /\ Len(circuits) = Len(alice_bits)
         /\ Len(bob_results) = Len(alice_bits)

\* the third round is in flight, the first two (different circuits) are
\* measured
C13_Witness ==
    /\ pc = "wait"
    /\ Len(circuits) = 3
    /\ Len(bob_results) = 2
    /\ circuits[1] # circuits[2]

\* C18: Alice's and Bob's sifted bits, revealed bits and final keys are
\* equal in every finished session.
C18_AliceAndBobAgree ==
    Finished =>
      /\ sifted_alice = sifted_bob
      /\ revealed_alice = revealed_bob
      /\ final_alice_key = final_bob_key

\* a session with a revealed bit and a key bit, one of them a 1 sent in
\* the X basis
C18_Witness ==
    /\ pc = "done"
    /\ revealed_alice # <<>>
    /\ final_alice_key # <<>>
    /\ \E k \in 1..Len(key_positions) :
         /\ alice_bases[key_positions[k] + 1] = 1
         /\ sifted_alice[k] = 1

\* C19: on every bit list the three packers give the same lowercase hex
\* string (bits_to_bytes through bytes.hex()), whichever of them have run,
\* and no call changes the list it was given.
C19_PackersAgree ==
    /\ [](/\ {"bits_to_hex", "bits_to_hex_str"} \subseteq applied =>
              hex_out = hex_str_out
          /\ {"bits_to_hex", "bits_to_bytes"} \subseteq applied =>
              hex_out = BytesHex(bytes_out)
          /\ {"bits_to_hex_str", "bits_to_bytes"} \subseteq applied =>
              hex_str_out = BytesHex(bytes_out)
          /\ \A i \in 1..Len(hex_out) : hex_out[i] \in Range(HexDigits))
    /\ [][bits' = bits]_vars

\* all three packers have run on a nine-bit list ending in 1
C19_Witness ==
    /\ applied = {"bits_to_hex", "bits_to_hex_str", "bits_to_bytes"}
    /\ Len(bits) = 9
    /\ bits[9] = 1
    /\ hex_out # <<"0", "0", "0", "0">>

GroverCalled == g_call # <<>>

\* the call's target index lies outside 0 .. 2^n_qubits - 1
TargetOutOfRange ==
    g_call.target_index < 0 \/ g_call.target_index >= Pow2(g_call.n_qubits)

\* the call's n_qubits is one its entry point supports
SupportedQubits ==
    IF g_call.fn = "grover_search_demo" THEN g_call.n_qubits \in {1, 2}
    ELSE g_call.n_qubits \in 1..4

\* C11: a call of grover_search_demo or run_grover with a supported
\* n_qubits and a target_index outside 0 .. 2^n_qubits - 1 raises an error
\* and submits no circuit.
C11_OutOfRangeTargetRejected ==
    (GroverCalled /\ SupportedQubits /\ TargetOutOfRange) =>
      /\ pc = "grover_raised"
      /\ g_error # "none"
      /\ g_submitted = <<>>

\* C12: a call with an unsupported n_qubits raises (grover_search_demo:
\* ValueError above 4, NotImplementedError for any other value than 1 and
\* 2; run_grover: ValueError outside 1..4) with no gate added to a circuit
\* and nothing submitted, whatever the target index.
C12_UnsupportedQubitCountRejected ==
    (GroverCalled /\ ~SupportedQubits) =>
      /\ pc = "grover_raised"
      /\ g_qc = <<>>
      /\ g_submitted = <<>>
      /\ g_error = IF g_call.fn = "run_grover" THEN "ValueError"
                   ELSE IF g_call.n_qubits > 4 THEN "ValueError"
                   ELSE "NotImplementedError"

\* run_grover refused zero qubits although the target index was 0
C12_Witness ==
    /\ GroverCalled
    /\ g_call.fn = "run_grover"
    /\ g_call.n_qubits = 0
    /\ g_call.target_index = 0
    /\ pc = "grover_raised"

\* C14: the bit generators return exactly n_bits elements, each 0 or 1,
\* after at most ceil(n_bits / shots) batches (count tables summing to the
\* shot count).
C14_ReturnsExactlyNBits ==
    /\ pc = "rng_returned" =>
         /\ Len(rng_result) = rng_call.n_bits
         /\ \A i \in 1..Len(rng_result) : rng_result[i] \in {0, 1}
    /\ pc \in {"rng_loop", "rng_returned"} =>
         \/ rng_batches = 0
         \/ (rng_batches - 1) * rng_call.shots < rng_call.n_bits

\* quantum_bits returned five bits after two batches of three shots
C14_Witness ==
    /\ pc = "rng_returned"
    /\ rng_call.fn = "quantum_bits"
    /\ rng_call.n_bits = 5
    /\ rng_call.shots = 3
    /\ rng_batches = 2

\* the positions i of lst, within lo..hi, where lst[i] # lst[i+1]
Changes(lst, lo, hi) ==
    {i \in lo..(hi - 1) : i + 1 <= Len(lst) /\ lst[i] # lst[i + 1]}

\* C20: within every batch of `shots` consecutive positions of the
\* returned list the bits are grouped by value (at most one change of
\* value), so a list of n_bits <= shots bits has at most one index i with
\* bits[i] # bits[i+1].
C20_BitsGroupedByValue ==
    pc = "rng_returned" =>
      /\ \A j \in 0..rng_batches :
           Cardinality(Changes(rng_result, j * rng_call.shots + 1,
                               (j + 1) * rng_call.shots)) <= 1
      /\ rng_call.n_bits <= rng_call.shots =>
           Cardinality(Changes(rng_result, 1, Len(rng_result))) <= 1

\* a returned list of two batches that changes value inside each batch
C20_Witness ==
    /\ pc = "rng_returned"
    /\ rng_call.shots = 2
    /\ rng_result = <<0, 1, 1, 0>>

\* C15: roll_die returns a value in 1..6, namely the accepted raw roll
\* plus one; raw rolls 6 and 7 are never returned, every roll before the
\* returned one was a 6 or a 7, and after a 6 or a 7 the die is rolled
\* again.
C15_DieInOneToSix ==
    /\ pc = "die_returned" =>
         /\ raw_rolls # <<>>
         /\ raw_rolls[Len(raw_rolls)] \in 0..5
         /\ die_result = raw_rolls[Len(raw_rolls)] + 1
         /\ die_result \in 1..6
         /\ \A i \in 1..(Len(raw_rolls) - 1) : raw_rolls[i] \in {6, 7}
    /\ pc = "die_rolling" =>
         /\ die_result = 0
         /\ \A i \in 1..Len(raw_rolls) : raw_rolls[i] \in {6, 7}
    /\ (raw_rolls # <<>> /\ raw_rolls[Len(raw_rolls)] \in {6, 7}) =>
         pc = "die_rolling"

\* a 6 returned from raw roll 5 after a 7 and a 6 were rejected
C15_Witness ==
    /\ pc = "die_returned"
    /\ raw_rolls = <<7, 6, 5>>
    /\ die_result = 6

\* C16: when the simulator does not withhold the values below 6 for ever
\* roll_die eventually returns; and while it is rolling a further
\* rejected roll is always possible, so the number of rolls has no bound.
C16_DieReturnsUnderFairness ==
    /\ <>(pc = "die_returned")
    /\ [](pc = "die_rolling" => ENABLED DieRollAgain)

\* roll_die returned after rejecting as many rolls as the log holds
C16_Witness ==
    /\ pc = "die_returned"
    /\ Len(raw_rolls) = MaxRolls
    /\ \A i \in 1..(MaxRolls - 1) : raw_rolls[i] \in {6, 7}

CipherStarted == pc \in {"cipher_encrypted", "cipher_decrypted", "cipher_raised"}

\* C17 (as stated): for every plaintext string and key, encrypting and
\* then decrypting with the same key gives the plaintext back.
C17_RoundTripForEveryString ==
    CipherStarted =>
      /\ pc # "cipher_raised"
      /\ pc = "cipher_decrypted" => c_out = c_call.plaintext

HasSurrogate(str) == \E i \in 1..Len(str) : IsSurrogate(str[i])

\* the strings of the call that are encoded as UTF-8
EncodedStrings ==
    IF c_call.mode = "password" THEN {c_call.plaintext, c_call.key}
    ELSE {c_call.plaintext}

\* the number of UTF-8 bytes of a string without surrogates
RECURSIVE Utf8Length(_)
Utf8Length(str) ==
    IF str = <<>> THEN 0
    ELSE (IF Head(str) < 128 THEN 1 ELSE IF Head(str) < 2048 THEN 2
          ELSE IF Head(str) < 65536 THEN 3 ELSE 4)
         + Utf8Length(Tail(str))

\* C17 (amended): for every plaintext (and password) that UTF-8 can
\* encode, i.e. without lone surrogates, and every key, each of the three
\* encrypt/decrypt pairs gives the plaintext back; the ciphertext is the
\* base64 form of as many bytes as the plaintext has; a string with a lone
\* surrogate makes encryption raise, and nothing else does.
C17_RoundTripForEncodableStrings ==
    CipherStarted =>
      /\ pc = "cipher_raised" <=> \E str \in EncodedStrings : HasSurrogate(str)
      /\ pc = "cipher_raised" => c_error = "UnicodeEncodeError"
      /\ pc # "cipher_raised" =>
           Len(c_ct) = 4 * ((Utf8Length(c_call.plaintext) + 2) \div 3)
      /\ pc = "cipher_decrypted" => c_out = c_call.plaintext

\* a plaintext longer than the SHA-256 key came back from the bits cipher
C17_Witness ==
    /\ pc = "cipher_decrypted"
    /\ c_call.mode = "bits"
    /\ c_call.plaintext = LongPlaintext
    /\ c_out = LongPlaintext

====
